---- MODULE Spec2Model ----
(***************************************************************************)
(* The recipe tokenizer of src/parser.rs: `parse` is many1 over an ordered *)
(* alternative of eight token parsers.  Strings are sequences of one-      *)
(* character strings; every parser takes the remaining input `i` and       *)
(* returns an IResult: Ok(rest, out), or an Error (recoverable) or Failure *)
(* (unrecoverable) carrying the input at the point of failure and the      *)
(* ErrorKind.  One step of the state machine is one iteration of many1.    *)
(***************************************************************************)
EXTENDS Integers, Sequences, FiniteSets, TLC

VARIABLES input, rest, acc, spans, result, err

vars == <<input, rest, acc, spans, result, err>>

(***************************************************************************)
(* Bounds of the input families (number of fragments per document).        *)
(***************************************************************************)
MaxBrace == 4
MaxMeta == 5
MaxComment == 4
MaxStory == 4
MaxMixed == 2

(***************************************************************************)
(* Slices.                                                                 *)
(***************************************************************************)
Take(s, n) == SubSeq(s, 1, n)

Drop(s, n) == SubSeq(s, n + 1, Len(s))

IsPrefix(p, s) == Len(p) <= Len(s) /\ Take(s, Len(p)) = p

\* Length of the longest prefix of s whose characters are all in S.
SpanIn(S, s) ==
  IF \A k \in 1..Len(s) : s[k] \in S THEN Len(s)
  ELSE (CHOOSE k \in 1..Len(s) : s[k] \notin S /\ \A j \in 1..(k - 1) : s[j] \in S) - 1

\* Length of the longest prefix of s none of whose characters is in S.
SpanNotIn(S, s) ==
  IF \A k \in 1..Len(s) : s[k] \notin S THEN Len(s)
  ELSE (CHOOSE k \in 1..Len(s) : s[k] \in S /\ \A j \in 1..(k - 1) : s[j] \notin S) - 1

\* Offset of the first occurrence of p in s, or -1.
Find(p, s) ==
  IF \E k \in 0..Len(s) : IsPrefix(p, Drop(s, k))
  THEN CHOOSE k \in 0..Len(s) :
         IsPrefix(p, Drop(s, k)) /\ \A j \in 0..(k - 1) : ~IsPrefix(p, Drop(s, j))
  ELSE -1

(***************************************************************************)
(* Character classes.                                                      *)
(***************************************************************************)
\* char::is_alphanumeric, on the ASCII letters and digits.
Alphanumeric ==
  {"a","b","c","d","e","f","g","h","i","j","k","l","m","n","o","p","q","r","s",
   "t","u","v","w","x","y","z","A","B","C","D","E","F","G","H","I","J","K","L",
   "M","N","O","P","Q","R","S","T","U","V","W","X","Y","Z",
   "0","1","2","3","4","5","6","7","8","9"}

spaces_and_symbols == {"\t", " ", "/", "-", "_", "@", ".", ",", "%", "#", "'"}

multispace == {" ", "\t", "\r", "\n"}

\* nom's space0: spaces and tabs only.
SpaceTab == {" ", "\t"}

\* str::trim strips char::is_whitespace; of the characters used here these four.
Whitespace == {" ", "\t", "\n", "\r"}

trim(s) ==
  LET a == SpanIn(Whitespace, s)
      t == Drop(s, a)
      b == IF t = <<>> THEN 0
           ELSE CHOOSE n \in 1..Len(t) :
                  t[n] \notin Whitespace /\ \A j \in (n + 1)..Len(t) : t[j] \in Whitespace
  IN  Take(t, b)

(***************************************************************************)
(* IResult and the nom combinators the parsers are built from.             *)
(***************************************************************************)
Ok(r, o) == [tag |-> "Ok", rest |-> r, out |-> o]

\* nom::error::Error { input, code }; `context` lists the labels the error carries.
Error(i, code) == [tag |-> "Error", input |-> i, code |-> code, context |-> <<>>]

tag(p, i) == IF IsPrefix(p, i) THEN Ok(Drop(i, Len(p)), p) ELSE Error(i, "Tag")

char(c, i) == IF i # <<>> /\ i[1] = c THEN Ok(Tail(i), c) ELSE Error(i, "Char")

take_while1(S, i) ==
  LET n == SpanIn(S, i)
  IN  IF n = 0 THEN Error(i, "TakeWhile1") ELSE Ok(Drop(i, n), Take(i, n))

take_till1(S, i) ==
  LET n == SpanNotIn(S, i)
  IN  IF n = 0 THEN Error(i, "TakeTill1") ELSE Ok(Drop(i, n), Take(i, n))

take_until(p, i) ==
  LET k == Find(p, i)
  IN  IF k < 0 THEN Error(i, "TakeUntil") ELSE Ok(Drop(i, k), Take(i, k))

space0(i) == LET n == SpanIn(SpaceTab, i) IN Ok(Drop(i, n), Take(i, n))

multispace0(i) == LET n == SpanIn(multispace, i) IN Ok(Drop(i, n), Take(i, n))

line_ending(i) ==
  IF IsPrefix(<<"\n">>, i) THEN Ok(Drop(i, 1), <<"\n">>)
  ELSE IF IsPrefix(<<"\r", "\n">>, i) THEN Ok(Drop(i, 2), <<"\r", "\n">>)
  ELSE Error(i, "CrLf")

\* cut: a recoverable Error becomes an unrecoverable Failure.
cut(r) == IF r.tag = "Error" THEN [r EXCEPT !.tag = "Failure"] ELSE r

\* context: ContextError::add_context.  The parsers return IResult<&str, _>,
\* whose error type is nom::error::Error<&str>; its ContextError impl is the
\* trait's default, which returns the inner error and drops the label.
context(label, r) == r

\* opt: None (<<>>) on Error, Some(o) (<<o>>) on Ok; a Failure passes through.
opt(r, i) ==
  IF r.tag = "Error" THEN Ok(i, <<>>)
  ELSE IF r.tag = "Ok" THEN Ok(r.rest, <<r.out>>)
  ELSE r

(***************************************************************************)
(* The token parsers.                                                      *)
(***************************************************************************)
\* c.is_alphanumeric() || spaces_and_symbols.contains(c)
ValidChars == Alphanumeric \cup spaces_and_symbols

parse_valid_string(i) == take_while1(ValidChars, i)

\* parse_comment with `tag("*/")` in place of `preceded(tag("*/"), space0)`: the
\* blanks after the closing delimiter are left in the input.
parse_comment_keeps_blanks(i) ==
  LET end(body, close) ==
        IF close.tag # "Ok" THEN close ELSE Ok(close.rest, trim(body.out))
      inner(body) ==
        IF body.tag # "Ok" THEN body ELSE end(body, tag(<<"*", "/">>, body.rest))
      start(open) ==
        IF open.tag # "Ok" THEN open ELSE inner(take_until(<<"*", "/">>, open.rest))
  IN  start(tag(<<"/", "*">>, i))

\* delimited(tag("/*"), map(take_until("*/"), trim), preceded(tag("*/"), space0))
parse_comment(i) ==
  LET end(body, close) ==
        IF close.tag # "Ok" THEN close ELSE Ok(space0(close.rest).rest, trim(body.out))
      inner(body) ==
        IF body.tag # "Ok" THEN body ELSE end(body, tag(<<"*", "/">>, body.rest))
      start(open) ==
        IF open.tag # "Ok" THEN open ELSE inner(take_until(<<"*", "/">>, open.rest))
  IN  start(tag(<<"/", "*">>, i))

\* delimited(char('{'), map(parse_valid_string, trim),
\*           context("missing closing }", cut(char('}'))))
parse_curly(i) ==
  LET end(v, close) ==
        IF close.tag # "Ok" THEN close ELSE Ok(close.rest, trim(v.out))
      inner(v) ==
        IF v.tag # "Ok" THEN v
        ELSE end(v, context("missing closing }", cut(char("}", v.rest))))
      start(open) ==
        IF open.tag # "Ok" THEN open ELSE inner(parse_valid_string(open.rest))
  IN  start(char("{", i))

\* delimited(tag("("), parse_valid_string, context("missing closing )", cut(tag(")"))))
parse_ingredient_amount(i) ==
  LET end(v, close) ==
        IF close.tag # "Ok" THEN close ELSE Ok(close.rest, v.out)
      inner(v) ==
        IF v.tag # "Ok" THEN v
        ELSE end(v, context("missing closing )", cut(tag(<<")">>, v.rest))))
      start(open) ==
        IF open.tag # "Ok" THEN open ELSE inner(parse_valid_string(open.rest))
  IN  start(tag(<<"(">>, i))

\* pair(parse_curly, opt(parse_ingredient_amount)); out = <<name, amount>>
parse_ingredient(i) ==
  LET second(name, amount) ==
        IF amount.tag # "Ok" THEN amount ELSE Ok(amount.rest, <<name.out, amount.out>>)
      first(name) ==
        IF name.tag # "Ok" THEN name
        ELSE second(name, opt(parse_ingredient_amount(name.rest), name.rest))
  IN  first(parse_curly(i))

\* parse_material with the prefix of parse_timer, `tag("t")`.
parse_material_timer_prefix(i) ==
  LET first(m) == IF m.tag # "Ok" THEN m ELSE parse_curly(m.rest)
  IN  first(tag(<<"t">>, i))

\* preceded(tag("m"), parse_curly)
parse_material(i) ==
  LET first(m) == IF m.tag # "Ok" THEN m ELSE parse_curly(m.rest)
  IN  first(tag(<<"m">>, i))

\* preceded(tag("t"), parse_curly)
parse_timer(i) ==
  LET first(t) == IF t.tag # "Ok" THEN t ELSE parse_curly(t.rest)
  IN  first(tag(<<"t">>, i))

parse_word(i) == take_till1(multispace, i)

\* parse_space over " \t" only: line breaks are not matched.
parse_space_blanks_only(i) == take_while1(SpaceTab, i)

parse_space(i) == take_while1(multispace, i)

\* take_while1(|c| c != ':')
take_key(i) ==
  LET n == SpanNotIn({":"}, i)
  IN  IF n = 0 THEN Error(i, "TakeWhile1") ELSE Ok(Drop(i, n), Take(i, n))

\* preceded(terminated(tag(">>"), space0),
\*          pair(take_while1(c != ':'), preceded(terminated(tag(":"), space0), take_until("\n"))))
parse_metadata(i) ==
  LET end(key, value) ==
        IF value.tag # "Ok" THEN value ELSE Ok(value.rest, <<key.out, value.out>>)
      sep(key, colon) ==
        IF colon.tag # "Ok" THEN colon
        ELSE end(key, take_until(<<"\n">>, space0(colon.rest).rest))
      inner(key) ==
        IF key.tag # "Ok" THEN key ELSE sep(key, tag(<<":">>, key.rest))
      start(mark) ==
        IF mark.tag # "Ok" THEN mark ELSE inner(take_key(space0(mark.rest).rest))
  IN  start(tag(<<">", ">">>, i))

\* parse_backstory ending in Ok((tail, tail)): the tail is the payload and is
\* also left in the input.
parse_backstory_leaves_tail(i) ==
  LET end(le2) ==
        IF le2.tag # "Ok" THEN le2
        ELSE Ok(multispace0(le2.rest).rest, multispace0(le2.rest).rest)
      inner(dash) ==
        IF dash.tag # "Ok" THEN dash ELSE end(line_ending(dash.rest))
      start(le1) ==
        IF le1.tag # "Ok" THEN le1
        ELSE inner(tag(<<"-", "-", "-">>, multispace0(le1.rest).rest))
  IN  start(line_ending(i))

\* delimited(preceded(line_ending, multispace0), tag("---"),
\*           preceded(line_ending, multispace0))(i)?;  Ok(("", tail))
parse_backstory(i) ==
  LET end(le2) ==
        IF le2.tag # "Ok" THEN le2 ELSE Ok(<<>>, multispace0(le2.rest).rest)
      inner(dash) ==
        IF dash.tag # "Ok" THEN dash ELSE end(line_ending(dash.rest))
      start(le1) ==
        IF le1.tag # "Ok" THEN le1
        ELSE inner(tag(<<"-", "-", "-">>, multispace0(le1.rest).rest))
  IN  start(line_ending(i))

(***************************************************************************)
(* Token and its Display.                                                  *)
(***************************************************************************)
Metadata(k, v) == [kind |-> "Metadata", key |-> k, value |-> v]

\* amount: Option<&str>, None = <<>>, Some(a) = <<a>>
Ingredient(n, a) == [kind |-> "Ingredient", name |-> n, amount |-> a]

Timer(v) == [kind |-> "Timer", text |-> v]

Material(v) == [kind |-> "Material", text |-> v]

Word(v) == [kind |-> "Word", text |-> v]

Space(v) == [kind |-> "Space", text |-> v]

Comment(v) == [kind |-> "Comment", text |-> v]

Backstory(v) == [kind |-> "Backstory", text |-> v]

\* Display with the Ingredient arm writing the amount after the name.
Display_with_amount(tok) ==
  IF tok.kind = "Ingredient"
    THEN tok.name \o (IF tok.amount = <<>> THEN <<>> ELSE tok.amount[1])
  ELSE IF tok.kind \in {"Backstory", "Timer", "Material", "Word", "Space"} THEN tok.text
  ELSE <<>>

\* impl Display for Token: the text `fmt` writes.
Display(tok) ==
  IF tok.kind = "Ingredient" THEN tok.name
  ELSE IF tok.kind \in {"Backstory", "Timer", "Material", "Word", "Space"} THEN tok.text
  ELSE <<>>

(***************************************************************************)
(* alt((...)): the alternatives in source order; the first result that is  *)
(* not a recoverable Error is returned, a Failure included.                *)
(***************************************************************************)
alt(i) ==
  LET or8(r) == IF r.tag = "Ok" THEN Ok(r.rest, Space(r.out)) ELSE r
      or7(r) == IF r.tag = "Error" THEN or8(parse_space(i))
                ELSE IF r.tag = "Ok" THEN Ok(r.rest, Word(r.out)) ELSE r
      or6(r) == IF r.tag = "Error" THEN or7(parse_word(i))
                ELSE IF r.tag = "Ok" THEN Ok(r.rest, Comment(r.out)) ELSE r
      or5(r) == IF r.tag = "Error" THEN or6(parse_comment(i))
                ELSE IF r.tag = "Ok" THEN Ok(r.rest, Backstory(r.out)) ELSE r
      or4(r) == IF r.tag = "Error" THEN or5(parse_backstory(i))
                ELSE IF r.tag = "Ok" THEN Ok(r.rest, Ingredient(r.out[1], r.out[2])) ELSE r
      or3(r) == IF r.tag = "Error" THEN or4(parse_ingredient(i))
                ELSE IF r.tag = "Ok" THEN Ok(r.rest, Timer(r.out)) ELSE r
      or2(r) == IF r.tag = "Error" THEN or3(parse_timer(i))
                ELSE IF r.tag = "Ok" THEN Ok(r.rest, Material(r.out)) ELSE r
      or1(r) == IF r.tag = "Error" THEN or2(parse_material(i))
                ELSE IF r.tag = "Ok" THEN Ok(r.rest, Metadata(r.out[1], r.out[2])) ELSE r
  IN  or1(parse_metadata(i))

(***************************************************************************)
(* The documents of the source's tests.                                    *)
(***************************************************************************)
\* test_parse_ok: the input
ExampleInput ==
  <<"B","o","i","l"," ","t","h","e"," ","q","u","i","n","o","a"," ","f","o",
    "r"," ","t","{","5"," ","m","i","n","u","t","e","s","}"," ","i","n"," ",
    "a"," ","m","{","p","o","t","}",".","\n","P","u","t"," ","t","h","e",
    " ","b","o","i","l","e","d"," ","{","q","u","i","n","o","a","}","(","2",
    "0","0","g","r",")"," ","i","n"," ","t","h","e"," ","b","a","s","e"," ",
    "o","f"," ","t","h","e"," ","b","o","w","l",".">>

\* test_parse_ok: the expected rendering
ExampleExpected ==
  <<"B","o","i","l"," ","t","h","e"," ","q","u","i","n","o","a"," ","f","o",
    "r"," ","5"," ","m","i","n","u","t","e","s"," ","i","n"," ","a"," ","p",
    "o","t",".","\n","P","u","t"," ","t","h","e"," ","b","o","i","l","e",
    "d"," ","q","u","i","n","o","a"," ","i","n"," ","t","h","e"," ","b","a",
    "s","e"," ","o","f"," ","t","h","e"," ","b","o","w","l",".">>

\* test_parse_meta_ok, shortened after the first timer
MetaDoc ==
  <<">",">"," ","n","a","m","e",":"," ","s","t","o","r","y","\n","B","o",
    "i","l"," ","f","o","r"," ","t","{","5"," ","m","i","n","u","t","e","s",
    "}">>

\* test_recipe_with_comment_ok
CommentDoc ==
  <<"B","o","i","l"," ","t","h","e"," ","{","q","u","i","n","o","a","}"," ",
    "/","*"," ","d","o","n","'","t"," ","d","o"," ","i","t","!"," ","*","/",
    " ","f","o","r"," ","t","{","5"," ","m","i","n","u","t","e","s","}">>

\* test_invalid_recipes
InvalidDoc ==
  <<"t","h","i","s"," ","i","s"," ","a","n"," ","{","i","n","v","a","l","i",
    "d"," ","r","e","c","i","p","e">>

\* test_parse_backstory_ok, after a line of prose with a CRLF line ending
BackstoryDoc ==
  <<"M","i","x"," ","{","s","a","l","t","}","\r","\n"," "," "," ","-","-",
    "-","\n","\n","t","h","i","s"," ","i","s"," ","[","m","a","r","k","d",
    "o","w","n","]","(","u","r","l",")">>

TestDocs == {ExampleInput, MetaDoc, CommentDoc, InvalidDoc, BackstoryDoc}

(***************************************************************************)
(* Input documents: every concatenation of at most `max` fragments of a    *)
(* family's fragment set, for four families built around one construct     *)
(* each and one that mixes the fragments of all, and the test documents.   *)
(***************************************************************************)
BraceFrags ==
  {<<"a">>, <<"m">>, <<"t">>, <<"{">>, <<"}">>, <<"(">>, <<")">>, <<" ">>,
   <<"{", "a", "}">>}

MetaFrags == {<<">", ">">>, <<"a">>, <<" ">>, <<":">>, <<"\n">>}

CommentFrags == {<<"/", "*">>, <<"*", "/">>, <<"a">>, <<" ">>, <<"\n">>}

StoryFrags ==
  {<<"a">>, <<" ">>, <<"\n">>, <<"\r", "\n">>, <<"-", "-", "-">>,
   <<"\n", "-", "-", "-", "\n">>}

MixedFrags == BraceFrags \cup MetaFrags \cup CommentFrags \cup StoryFrags \cup {<<"\t">>}

Families ==
  {[frags |-> BraceFrags, max |-> MaxBrace],
   [frags |-> MetaFrags, max |-> MaxMeta],
   [frags |-> CommentFrags, max |-> MaxComment],
   [frags |-> StoryFrags, max |-> MaxStory],
   [frags |-> MixedFrags, max |-> MaxMixed]}

\* The concatenation of the fragments f[1], ..., f[n].
RECURSIVE Flatten(_, _)
Flatten(f, n) == IF n = 0 THEN <<>> ELSE Flatten(f, n - 1) \o f[n]

(***************************************************************************)
(* parse = many1(alt((...))): `rest` is many1's `i`, `acc` its vector;     *)
(* `spans` keeps, for each token, the text its parser consumed.            *)
(***************************************************************************)
NoError == [input |-> <<>>, code |-> "None", context |-> <<>>]

ErrorOf(r) == [input |-> r.input, code |-> r.code, context |-> r.context]

Init ==
  /\ \/ \E fam \in Families : \E n \in 0..fam.max : \E f \in [1..n -> fam.frags] :
          input = Flatten(f, n)
     \/ input \in TestDocs
  /\ rest = input
  /\ acc = <<>>
  /\ spans = <<>>
  /\ result = "Running"
  /\ err = NoError

\* The body of one iteration whose alternative returned Ok((r.rest, r.out)) with
\* a token of `kind`.  After the first iteration many1 fails if the parser
\* consumed nothing.
Push(kind, r) ==
  /\ r.tag = "Ok"
  /\ r.out.kind = kind
  /\ IF acc # <<>> /\ Len(r.rest) = Len(rest)
       THEN /\ result' = "Error"
            /\ err' = [input |-> rest, code |-> "Many1", context |-> <<>>]
            /\ UNCHANGED <<rest, acc, spans>>
       ELSE /\ acc' = Append(acc, r.out)
            /\ spans' = Append(spans, Take(rest, Len(rest) - Len(r.rest)))
            /\ rest' = r.rest
            /\ UNCHANGED <<result, err>>
  /\ UNCHANGED input

EmitMetadata ==
  /\ result = "Running"
  /\ Push("Metadata", alt(rest))

EmitMaterial ==
  /\ result = "Running"
  /\ Push("Material", alt(rest))

EmitTimer ==
  /\ result = "Running"
  /\ Push("Timer", alt(rest))

EmitIngredient ==
  /\ result = "Running"
  /\ Push("Ingredient", alt(rest))

EmitBackstory ==
  /\ result = "Running"
  /\ Push("Backstory", alt(rest))

EmitComment ==
  /\ result = "Running"
  /\ Push("Comment", alt(rest))

EmitWord ==
  /\ result = "Running"
  /\ Push("Word", alt(rest))

EmitSpace ==
  /\ result = "Running"
  /\ Push("Space", alt(rest))

\* No alternative matches: an Error on the first iteration, otherwise the
\* loop ends and parse returns Ok((rest, acc)).
Stop ==
  /\ result = "Running"
  /\ LET step(r) ==
           /\ r.tag = "Error"
           /\ IF acc = <<>>
                THEN result' = "Error" /\ err' = ErrorOf(r)
                ELSE result' = "Ok" /\ UNCHANGED err
     IN  step(alt(rest))
  /\ UNCHANGED <<input, rest, acc, spans>>

\* An alternative fails past a cut: many1 returns the Failure as it is.
Abort ==
  /\ result = "Running"
  /\ LET step(r) ==
           /\ r.tag = "Failure"
           /\ result' = "Failure"
           /\ err' = ErrorOf(r)
     IN  step(alt(rest))
  /\ UNCHANGED <<input, rest, acc, spans>>

Next ==
  \/ EmitMetadata
  \/ EmitMaterial
  \/ EmitTimer
  \/ EmitIngredient
  \/ EmitBackstory
  \/ EmitComment
  \/ EmitWord
  \/ EmitSpace
  \/ Stop
  \/ Abort

Spec == Init /\ [][Next]_vars

(***************************************************************************)
(* What the properties read: the text a token starts at, the text after   *)
(* it, and the rendering of the token sequence.                            *)
(***************************************************************************)
\* The input from the first character of token k on.
TextFrom(k) == Drop(input, Len(Flatten(spans, k - 1)))

\* The input after the last character of token k.
TextAfter(k) == Drop(input, Len(Flatten(spans, k)))

\* recipe.iter().fold(String::new(), |acc, val| format!("{acc}{val}"))
Rendered == Flatten([k \in 1..Len(acc) |-> Display(acc[k])], Len(acc))

Kinds == {acc[k].kind : k \in 1..Len(acc)}

(***************************************************************************)
(* C1: when parse succeeds the tokens cover the whole input: the           *)
(* remainder is empty, every token consumed a non-empty span that starts   *)
(* where the previous one ended, and the spans in order make up the input. *)
(* At every step the spans so far followed by the remainder are the input. *)
(***************************************************************************)
C1_TokensCoverInput ==
  /\ Len(spans) = Len(acc)
  /\ \A k \in 1..Len(spans) : spans[k] # <<>>
  /\ Flatten(spans, Len(spans)) \o rest = input
  /\ result = "Ok" => rest = <<>> /\ Flatten(spans, Len(spans)) = input

C1_Witness ==
  /\ result = "Ok"
  /\ Len(acc) >= 3
  /\ {"Ingredient", "Space", "Backstory"} \subseteq Kinds

(***************************************************************************)
(* C2: when parse succeeds, the Display forms of the tokens in order are   *)
(* the input with every Metadata and Comment span removed, every           *)
(* m{p}, t{p}, {n} and {n}(a) span replaced by the trimmed text between    *)
(* its braces, every Backstory span replaced by the text after its         *)
(* delimiter, and Word and Space spans kept; the example of test_parse_ok  *)
(* renders to its expected text.                                           *)
(***************************************************************************)
\* The text a span contributes, read off the span itself.
PayloadOfSpan(kind, span) ==
  IF kind \in {"Metadata", "Comment"} THEN <<>>
  ELSE IF kind \in {"Word", "Space"} THEN span
  ELSE IF kind \in {"Material", "Timer", "Ingredient"}
    THEN trim(SubSeq(span, Find(<<"{">>, span) + 2, Find(<<"}">>, span)))
  ELSE LET after == Drop(span, Find(<<"-", "-", "-">>, span) + 3)
       IN  Drop(after, SpanIn(Whitespace, after))

C2_RenderedIsInputWithMarkupReplaced ==
  result = "Ok" =>
    /\ Rendered = Flatten([k \in 1..Len(acc) |-> PayloadOfSpan(acc[k].kind, spans[k])],
                          Len(acc))
    /\ input = ExampleInput => Rendered = ExampleExpected

C2_Witness == result = "Ok" /\ input = ExampleInput /\ Rendered = ExampleExpected

(***************************************************************************)
(* C3: when the text at a scan position is `{`, `m{` or `t{`, a non-empty  *)
(* valid payload and then no `}`, parse returns a Failure that carries the *)
(* context "missing closing }"; when it is an ingredient `{n}`, `(`, a     *)
(* valid payload and no `)`, a Failure that carries "missing closing )".   *)
(* No token is emitted at such a position.                                 *)
(***************************************************************************)
\* s is `{`, a non-empty run of valid characters, and then anything but `}`.
UnclosedCurly(s) ==
  /\ IsPrefix(<<"{">>, s)
  /\ LET n == SpanIn(ValidChars, Tail(s))
     IN  n >= 1 /\ (Len(s) = n + 1 \/ s[n + 2] # "}")

UnclosedBrace(s) ==
  \/ UnclosedCurly(s)
  \/ (IsPrefix(<<"m">>, s) \/ IsPrefix(<<"t">>, s)) /\ UnclosedCurly(Tail(s))

\* s is `{n}(`, a non-empty run of valid characters, and then anything but `)`.
UnclosedParen(s) ==
  /\ IsPrefix(<<"{">>, s)
  /\ LET n == SpanIn(ValidChars, Tail(s))
         t == Drop(s, n + 2)
         m == SpanIn(ValidChars, Tail(t))
     IN  /\ n >= 1 /\ Len(s) >= n + 2 /\ s[n + 2] = "}"
         /\ IsPrefix(<<"(">>, t)
         /\ m >= 1 /\ (Len(t) = m + 1 \/ t[m + 2] # ")")

Carries(label) == \E k \in 1..Len(err.context) : err.context[k] = label

C3_CommitAfterOpeningDelimiter ==
  /\ \A k \in 1..Len(acc) : ~UnclosedBrace(TextFrom(k)) /\ ~UnclosedParen(TextFrom(k))
  /\ result # "Running" /\ UnclosedBrace(rest) =>
       result = "Failure" /\ Carries("missing closing }")
  /\ result # "Running" /\ UnclosedParen(rest) =>
       result = "Failure" /\ Carries("missing closing )")

\* The part of C3 that does not read the label: an unrecoverable Failure at the
\* position, with the ErrorKind of the closer that was required.
C3_FailureWithoutBacktracking ==
  /\ \A k \in 1..Len(acc) : ~UnclosedBrace(TextFrom(k)) /\ ~UnclosedParen(TextFrom(k))
  /\ result # "Running" /\ UnclosedBrace(rest) => result = "Failure" /\ err.code = "Char"
  /\ result # "Running" /\ UnclosedParen(rest) => result = "Failure" /\ err.code = "Tag"

(***************************************************************************)
(* C4: when `{}`, `m{}` or `t{}` stands at a scan position, or `()`        *)
(* directly after an ingredient's `}`, parse does not return a token       *)
(* sequence.                                                               *)
(***************************************************************************)
EmptyBraces(s) ==
  \/ IsPrefix(<<"{", "}">>, s)
  \/ IsPrefix(<<"m", "{", "}">>, s)
  \/ IsPrefix(<<"t", "{", "}">>, s)

C4_EmptyPayloadFails ==
  result = "Ok" =>
    \A k \in 1..Len(acc) :
      /\ ~EmptyBraces(TextFrom(k))
      /\ acc[k].kind = "Ingredient" => ~IsPrefix(<<"(", ")">>, TextAfter(k))

(***************************************************************************)
(* C5: for prose P that is empty or parses on its own and text T that is   *)
(* not empty and does not start with whitespace, parse of                  *)
(* P + "\n---\n" + T succeeds and its last token is Backstory(T).          *)
(***************************************************************************)
\* parse(i) as a function of the text: the tag of the IResult many1 returns.
RECURSIVE ParseTag(_, _)
ParseTag(i, first) ==
  LET step(r) ==
        IF r.tag = "Failure" THEN "Failure"
        ELSE IF r.tag = "Error" THEN (IF first THEN "Error" ELSE "Ok")
        ELSE IF ~first /\ Len(r.rest) = Len(i) THEN "Error"
        ELSE ParseTag(r.rest, FALSE)
  IN  step(alt(i))

StoryDelimiter == <<"\n", "-", "-", "-", "\n">>

\* input = P + "\n---\n" + T with the delimiter at offset n, P and T as C5 asks,
\* for P and T that hold no `---` of their own.
StorySplit(n) ==
  /\ IsPrefix(StoryDelimiter, Drop(input, n))
  /\ Len(input) > n + 5
  /\ input[n + 6] \notin Whitespace
  /\ Find(<<"-", "-", "-">>, Take(input, n)) < 0
  /\ Find(<<"-", "-", "-">>, Drop(input, n + 5)) < 0
  /\ n = 0 \/ ParseTag(Take(input, n), TRUE) = "Ok"

C5_BackstoryCapture ==
  result # "Running" =>
    \A n \in 0..Len(input) :
      StorySplit(n) =>
        /\ result = "Ok"
        /\ acc # <<>>
        /\ acc[Len(acc)] = Backstory(Drop(input, n + 5))

(***************************************************************************)
(* C6: a token sequence holds at most one Backstory token, and it is the   *)
(* last: once it is emitted the remainder is empty and nothing follows.    *)
(***************************************************************************)
C6_BackstoryIsLast ==
  \A k \in 1..Len(acc) :
    acc[k].kind = "Backstory" => k = Len(acc) /\ rest = <<>>

C6_Witness ==
  /\ result = "Ok"
  /\ Len(acc) >= 2
  /\ acc[Len(acc)].kind = "Backstory"
  /\ Len(acc[Len(acc)].text) >= 2

(***************************************************************************)
(* C7: for a metadata line `>>`, whitespace, key text, whitespace, `:`,    *)
(* whitespace, value text, whitespace, end of line, the Metadata token's   *)
(* key is the key text and its value the value text, neither with leading  *)
(* or trailing whitespace.                                                 *)
(***************************************************************************)
C7_MetadataTrimmed ==
  \A k \in 1..Len(acc) :
    (/\ acc[k].kind = "Metadata"
     /\ \A j \in 1..Len(acc[k].key) : acc[k].key[j] # "\n"
     /\ trim(acc[k].key) # <<>>)
    => /\ acc[k].key = trim(acc[k].key)
       /\ acc[k].value = trim(acc[k].value)

(***************************************************************************)
(* C8 as stated: a Comment token consumes `/*`, the body up to the first   *)
(* `*/`, the `*/` and the whole run of whitespace (space, tab, CR, LF)     *)
(* after it; its payload is the trimmed body, it renders as nothing, and   *)
(* the token after it never begins with whitespace.                        *)
(***************************************************************************)
\* Token k is a Comment over `/*` body `*/` and a run of characters of `ws`
\* that ends only where no character of `ws` follows.
CommentConsumes(k, ws) ==
  LET s     == spans[k]
      n     == Find(<<"*", "/">>, Drop(s, 2))
      body  == SubSeq(s, 3, n + 2)
      tail  == Drop(s, n + 4)
      after == TextAfter(k)
  IN  /\ IsPrefix(<<"/", "*">>, s)
      /\ n >= 0
      /\ \A j \in 1..Len(tail) : tail[j] \in ws
      /\ after = <<>> \/ after[1] \notin ws
      /\ k < Len(acc) => spans[k + 1][1] \notin ws
      /\ acc[k].text = trim(body)
      /\ Display(acc[k]) = <<>>

C8_CommentConsumesWhitespace ==
  \A k \in 1..Len(acc) : acc[k].kind = "Comment" => CommentConsumes(k, multispace)

(***************************************************************************)
(* C8 amended: the run consumed after `*/` is the whole run of spaces and  *)
(* tabs, and the token after a Comment never begins with a space or a tab. *)
(***************************************************************************)
C8_CommentConsumesSpacesAndTabs ==
  \A k \in 1..Len(acc) : acc[k].kind = "Comment" => CommentConsumes(k, SpaceTab)

C8_Witness ==
  \E k \in 1..Len(acc) :
    /\ acc[k].kind = "Comment"
    /\ k < Len(acc)
    /\ spans[k][Len(spans[k])] = " "
    /\ acc[k].text # <<>>

(***************************************************************************)
(* C9: when the text at a scan position is `m{p}` or `t{p}` with a valid   *)
(* payload p, the token emitted there is the Material or the Timer of p    *)
(* (trimmed) over exactly that text, and the scan does not stop there.     *)
(***************************************************************************)
\* s is c, `{`, a non-empty run of valid characters, `}`.
Prefixed(c, s) ==
  /\ IsPrefix(<<c, "{">>, s)
  /\ LET n == SpanIn(ValidChars, Drop(s, 2))
     IN  n >= 1 /\ Len(s) >= n + 3 /\ s[n + 3] = "}"

PayloadAt(s) == Take(Drop(s, 2), SpanIn(ValidChars, Drop(s, 2)))

C9_PrefixedBraceWins ==
  /\ \A k \in 1..Len(acc) :
       /\ Prefixed("m", TextFrom(k)) =>
            /\ acc[k] = Material(trim(PayloadAt(TextFrom(k))))
            /\ spans[k] = <<"m", "{">> \o PayloadAt(TextFrom(k)) \o <<"}">>
       /\ Prefixed("t", TextFrom(k)) =>
            /\ acc[k] = Timer(trim(PayloadAt(TextFrom(k))))
            /\ spans[k] = <<"t", "{">> \o PayloadAt(TextFrom(k)) \o <<"}">>
  /\ Prefixed("m", rest) \/ Prefixed("t", rest) => result = "Running"

C9_Witness ==
  /\ result = "Ok"
  /\ \E k \in 2..Len(acc) : acc[k].kind = "Material" /\ Prefixed("m", TextFrom(k))
  /\ \E k \in 2..Len(acc) : acc[k].kind = "Timer" /\ Prefixed("t", TextFrom(k))

(***************************************************************************)
(* C10: every Ingredient name, Material name and Timer duration of a       *)
(* token sequence is a non-empty string.                                   *)
(***************************************************************************)
C10_PayloadsNonEmpty ==
  \A k \in 1..Len(acc) :
    /\ acc[k].kind = "Ingredient" => acc[k].name # <<>>
    /\ acc[k].kind \in {"Material", "Timer"} => acc[k].text # <<>>

====
